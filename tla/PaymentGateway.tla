--------------------------- MODULE PaymentGateway ---------------------------
(***************************************************************************)
(* The payment gateway of crates/x402: an HTTP request that pays for a     *)
(* job, by the x402 or the MPP protocol, becomes one job of the runner.    *)
(* Requests run concurrently; they share the cache of verified payers, the *)
(* nonces of delegated signatures, the quote registry and the channel to   *)
(* the producer.  The facilitator, which settles payments, and the         *)
(* contract that knows the permitted callers are external.                 *)
(*                                                                         *)
(* Left out: amounts, tokens and networks; the counters; call ids, which   *)
(* nothing reads; the routes that change nothing (price, health, stats,    *)
(* auth-dry-run); malformed headers, which are answered with an error      *)
(* before anything is paid.                                                *)
(***************************************************************************)
EXTENDS Integers, Sequences

CONSTANTS
    Requests,
    Jobs,                   \* pairs (service_id, job_index)
    Payments,               \* signed payments, each from its own payer
    Callers,                \* who signs delegated calls
    Nonces,
    challenge_ttl_secs,
    quote_ttl_secs,
    PAYER_CACHE_TTL,
    Fractions,              \* bound: the moments of one second that quotes tell apart
    Scenarios,              \* bound: what is asked for, see IsScenario
    MaxClock,               \* bound: the seconds that pass
    None

Policies == {"unpriced", "disabled", "public_paid", "payer_is_caller", "delegated"}

Signature == [caller : Callers, nonce : Nonces, expiry : Nat]

(***************************************************************************)
(* The policies of the jobs (a job without a price is unknown to the       *)
(* gateway) and what every client does: it pays with `payment' for the job *)
(* of `route', after asking for a challenge for the job `asks' (MPP only). *)
(* Two requests with one payment are a retry of a client that got no       *)
(* answer.                                                                 *)
(***************************************************************************)
IsScenario(sc) ==
    /\ sc.policy \in [Jobs -> Policies]
    /\ sc.request \in [Requests -> [protocol : {"x402", "mpp"}, route : Jobs, asks : Jobs,
                                    payment : Payments, signature : Signature \cup {None}]]

ASSUME GatewayAssumption ==
    /\ challenge_ttl_secs \in Nat /\ quote_ttl_secs \in Nat /\ PAYER_CACHE_TTL \in Nat
    /\ MaxClock \in Nat
    /\ None \notin Payments /\ None \notin Signature
    /\ \A sc \in Scenarios : IsScenario(sc)

VARIABLES
    scenario,
    clock,          \* in seconds
    settled,        \* external: the payments the facilitator has settled
    at,             \* where each request is
    challenge,      \* the id of the challenge a client answers
    payer,          \* the payment whose payer the request was given
    digest,         \* the digest of the request's quote
    reserved_at,    \* history: when the request reserved its nonce
    verified_payers,\* challenge id -> payment and time of insertion
    seen_nonces,    \* the nonces in use, with their expiry
    entries,        \* quote digest -> expiry and whether it is consumed
    payments,       \* the channel to the producer
    closed,         \* the runner has dropped the producer
    produced        \* the requests whose job was produced

requestVars == <<at, challenge, payer, digest, reserved_at>>
channelVars == <<payments, closed, produced>>
vars == <<scenario, clock, settled, requestVars, verified_payers, seen_nonces, entries,
          channelVars>>

Request(r) == scenario.request[r]
Route(r) == Request(r).route
Payment(r) == Request(r).payment
Sig(r) == Request(r).signature
Policy(j) == scenario.policy[j]

-----------------------------------------------------------------------------
\* A challenge's id is a hash of the job and of the second in which it expires.
Challenges == [job : Jobs, expires : Nat]
Digests == [job : Jobs, second : Nat, fraction : Fractions]
NonceEntry == [caller : Callers, job : Jobs, nonce : Nonces, expiry : Nat]

ASSUME NoneAssumption == None \notin Challenges

Ends == {"accepted", "rejected", "gone"}
Steps == {"idle", "challenged", "verify", "settle", "drain", "policy", "reserve", "permission",
          "quote", "consume", "send"}

TypeOK ==
    /\ scenario \in Scenarios
    /\ clock \in 0 .. MaxClock
    /\ settled \subseteq Payments
    /\ at \in [Requests -> Steps \cup Ends]
    /\ challenge \in [Requests -> Challenges \cup {None}]
    /\ payer \in [Requests -> Payments \cup {None}]
    /\ digest \in [Requests -> Digests \cup {None}]
    /\ reserved_at \in [Requests -> Nat \cup {None}]
    /\ DOMAIN verified_payers \subseteq Challenges
    /\ \A id \in DOMAIN verified_payers : verified_payers[id] \in [payment : Payments, at : Nat]
    /\ seen_nonces \subseteq NonceEntry
    /\ DOMAIN entries \subseteq Digests
    /\ \A d \in DOMAIN entries : entries[d] \in [expires : Nat, consumed : BOOLEAN]
    /\ payments \in Seq(Requests)
    /\ closed \in BOOLEAN
    /\ produced \subseteq Requests
    \* One job per accepted request, in the channel or produced.
    /\ \A i, k \in DOMAIN payments : payments[i] = payments[k] => i = k
    /\ \A i \in DOMAIN payments : payments[i] \notin produced

Init ==
    /\ scenario \in Scenarios
    /\ clock = 0
    /\ settled = {}
    /\ at = [r \in Requests |-> "idle"]
    /\ challenge = [r \in Requests |-> None]
    /\ payer = [r \in Requests |-> None]
    /\ digest = [r \in Requests |-> None]
    /\ reserved_at = [r \in Requests |-> None]
    /\ verified_payers = <<>>
    /\ seen_nonces = {}
    /\ entries = <<>>
    /\ payments = <<>>
    /\ closed = FALSE
    /\ produced = {}

Goes(r, to) == at' = [at EXCEPT ![r] = to]

\* A request is answered with an error, or a response ends it: nothing else changes.
Reject(r) ==
    /\ Goes(r, "rejected")
    /\ UNCHANGED <<scenario, clock, settled, challenge, payer, digest, reserved_at,
                   verified_payers, seen_nonces, entries, channelVars>>

\* The map f without the keys in S.
Without(f, S) == [x \in DOMAIN f \ S |-> f[x]]
With(f, x, v) == [y \in DOMAIN f \cup {x} |-> IF y = x THEN v ELSE f[y]]

-----------------------------------------------------------------------------
(* From the request to the settled payment. *)

\* handle_mpp_job_request looks at the price and the policy before anything else.
MppServes(j) == Policy(j) \notin {"unpriced", "disabled"}

\* A request without a credential is answered with a challenge.
IssueChallenge(r) ==
    /\ at[r] = "idle" /\ Request(r).protocol = "mpp"
    /\ MppServes(Request(r).asks)
    /\ challenge' = [challenge EXCEPT ![r] = [job |-> Request(r).asks,
                                              expires |-> clock + challenge_ttl_secs]]
    /\ Goes(r, "challenged")
    /\ UNCHANGED <<scenario, clock, settled, payer, digest, reserved_at, verified_payers,
                   seen_nonces, entries, channelVars>>

RefuseChallenge(r) ==
    /\ at[r] = "idle" /\ Request(r).protocol = "mpp"
    /\ ~ MppServes(Request(r).asks)
    /\ Reject(r)

\* Mutant: the credential is not compared with the route.
CredentialFits_any_job(r) ==
    /\ MppServes(Route(r))
    /\ clock <= challenge[r].expires

\* A credential is good for the job its challenge was issued for, until it expires.
CredentialFits(r) ==
    /\ MppServes(Route(r))
    /\ challenge[r].job = Route(r)
    /\ clock <= challenge[r].expires

\* The paid request arrives.  x402 has no challenge to answer, and asks for payment of
\* whatever has a price.
Pays(r) ==
    \/ Request(r).protocol = "mpp" /\ at[r] = "challenged"
    \/ Request(r).protocol = "x402" /\ at[r] = "idle"

Payable(r) ==
    IF Request(r).protocol = "mpp" THEN CredentialFits(r) ELSE Policy(Route(r)) # "unpriced"

Post(r) ==
    /\ Pays(r) /\ Payable(r)
    /\ Goes(r, "verify")
    /\ UNCHANGED <<scenario, clock, settled, challenge, payer, digest, reserved_at,
                   verified_payers, seen_nonces, entries, channelVars>>

RefusePayment(r) == Pays(r) /\ ~ Payable(r) /\ Reject(r)

\* The facilitator finds the payment valid: it is not spent yet.
Verify(r) ==
    /\ at[r] = "verify"
    /\ Payment(r) \notin settled
    /\ Goes(r, "settle")
    /\ UNCHANGED <<scenario, clock, settled, challenge, payer, digest, reserved_at,
                   verified_payers, seen_nonces, entries, channelVars>>

\* It finds it invalid, or does not answer.
VerifyFails(r) == at[r] = "verify" /\ Reject(r)

\* What the request knows once its payment is settled: MPP leaves the payer in the cache
\* for its handler, x402 in a header that may be missing.
PaymentSettled(r) ==
    IF Request(r).protocol = "mpp"
    THEN /\ verified_payers' = With(verified_payers, challenge[r],
                                    [payment |-> Payment(r), at |-> clock])
         /\ Goes(r, "drain")
         /\ UNCHANGED payer
    ELSE /\ \E p \in {Payment(r), None} : payer' = [payer EXCEPT ![r] = p]
         /\ Goes(r, "policy")
         /\ UNCHANGED verified_payers

\* The facilitator settles a payment once.
Settle(r) ==
    /\ at[r] = "settle"
    /\ Payment(r) \notin settled
    /\ settled' = settled \cup {Payment(r)}
    /\ PaymentSettled(r)
    /\ UNCHANGED <<scenario, clock, challenge, digest, reserved_at, seen_nonces, entries,
                   channelVars>>

\* Mutant: the payer is stored before the payment is known to be settled.
SettleFails_payer_stored(r) ==
    /\ at[r] = "settle"
    /\ settled' \in {settled, settled \cup {Payment(r)}}
    /\ Goes(r, "rejected")
    /\ verified_payers' = IF Request(r).protocol # "mpp" THEN verified_payers
                          ELSE With(verified_payers, challenge[r],
                                    [payment |-> Payment(r), at |-> clock])
    /\ UNCHANGED <<scenario, clock, challenge, payer, digest, reserved_at, seen_nonces, entries,
                   channelVars>>

\* It refuses, or its answer is lost: then the payment may be settled all the same.
SettleFails(r) ==
    /\ at[r] = "settle"
    /\ settled' \in {settled, settled \cup {Payment(r)}}
    /\ Goes(r, "rejected")
    /\ UNCHANGED <<scenario, clock, challenge, payer, digest, reserved_at, verified_payers,
                   seen_nonces, entries, channelVars>>

\* The payer the cache holds for the request's challenge, if any.
Cached(r) ==
    IF challenge[r] \in DOMAIN verified_payers
    THEN verified_payers[challenge[r]].payment ELSE None

\* Mutant: the handler reads the payer and leaves it in the cache.
Drain_keeps(r) ==
    /\ at[r] = "drain"
    /\ payer' = [payer EXCEPT ![r] = Cached(r)]
    /\ Goes(r, IF Policy(Route(r)) = "payer_is_caller" /\ Cached(r) = None
               THEN "rejected" ELSE "policy")
    /\ UNCHANGED <<scenario, clock, settled, challenge, digest, reserved_at, verified_payers,
                   seen_nonces, entries, channelVars>>

\* The handler takes the payer out of the cache.
Drain(r) ==
    /\ at[r] = "drain"
    /\ payer' = [payer EXCEPT ![r] = Cached(r)]
    /\ verified_payers' = Without(verified_payers, {challenge[r]})
    /\ Goes(r, IF Policy(Route(r)) = "payer_is_caller" /\ Cached(r) = None
               THEN "rejected" ELSE "policy")
    /\ UNCHANGED <<scenario, clock, settled, challenge, digest, reserved_at, seen_nonces,
                   entries, channelVars>>

-----------------------------------------------------------------------------
(* handle_paid_job_inner: from the settled payment to the job. *)

\* A delegated call needs the caller's signature, which expires.
SignatureHolds(r) == Sig(r) # None /\ clock <= Sig(r).expiry

\* Where the policy of the job sends a paid request.
resolve_job_policy(r) ==
    CASE Policy(Route(r)) \in {"unpriced", "disabled"} -> "rejected"
      [] Policy(Route(r)) = "public_paid" -> "quote"
      [] Policy(Route(r)) = "payer_is_caller" ->
           IF payer[r] = None THEN "rejected" ELSE "permission"
      [] OTHER -> IF SignatureHolds(r) THEN "reserve" ELSE "rejected"

CheckPolicy(r) ==
    /\ at[r] = "policy"
    /\ Goes(r, resolve_job_policy(r))
    /\ UNCHANGED <<scenario, clock, settled, challenge, payer, digest, reserved_at,
                   verified_payers, seen_nonces, entries, channelVars>>

Unexpired == {n \in seen_nonces : n.expiry > clock}

Nonce(r) == [caller |-> Sig(r).caller, job |-> Route(r), nonce |-> Sig(r).nonce,
             expiry |-> Sig(r).expiry]

\* Mutant: the expiry is part of the key.
InUse_same_expiry(n, S) == n \in S

\* The nonce is in use, whatever the expiry it was used with.
InUse(n, S) == \E m \in S : m.caller = n.caller /\ m.job = n.job /\ m.nonce = n.nonce

reserve(r) ==
    /\ at[r] = "reserve"
    /\ IF InUse(Nonce(r), Unexpired)
       THEN /\ seen_nonces' = Unexpired
            /\ Goes(r, "rejected")
            /\ UNCHANGED reserved_at
       ELSE /\ seen_nonces' = Unexpired \cup {Nonce(r)}
            /\ reserved_at' = [reserved_at EXCEPT ![r] = clock]
            /\ Goes(r, "permission")
    /\ UNCHANGED <<scenario, clock, settled, challenge, payer, digest, verified_payers, entries,
                   channelVars>>

\* isPermittedCaller: the contract permits the caller; or it does not, or fails to answer.
Permitted(r) ==
    /\ at[r] = "permission"
    /\ Goes(r, "quote")
    /\ UNCHANGED <<scenario, clock, settled, challenge, payer, digest, reserved_at,
                   verified_payers, seen_nonces, entries, channelVars>>

NotPermitted(r) == at[r] = "permission" /\ Reject(r)

\* The quote's digest is made of the job and the time; an equal one is overwritten.
insert_dynamic(r) ==
    /\ at[r] = "quote"
    /\ \E f \in Fractions :
         LET d == [job |-> Route(r), second |-> clock, fraction |-> f]
         IN  /\ digest' = [digest EXCEPT ![r] = d]
             /\ entries' = With(entries, d, [expires |-> clock + quote_ttl_secs,
                                             consumed |-> FALSE])
    /\ Goes(r, "consume")
    /\ UNCHANGED <<scenario, clock, settled, challenge, payer, reserved_at, verified_payers,
                   seen_nonces, channelVars>>

Consumable(d) == d \in DOMAIN entries /\ entries[d].expires >= clock /\ ~ entries[d].consumed

consume(r) ==
    /\ at[r] = "consume" /\ Consumable(digest[r])
    /\ entries' = [entries EXCEPT ![digest[r]].consumed = TRUE]
    /\ Goes(r, "send")
    /\ UNCHANGED <<scenario, clock, settled, challenge, payer, digest, reserved_at,
                   verified_payers, seen_nonces, channelVars>>

QuoteConflict(r) == at[r] = "consume" /\ ~ Consumable(digest[r]) /\ Reject(r)

\* Mutant: the job is sent twice.
Send_twice(r) ==
    /\ at[r] = "send" /\ ~ closed
    /\ payments' = Append(Append(payments, r), r)
    /\ Goes(r, "accepted")
    /\ UNCHANGED <<scenario, clock, settled, challenge, payer, digest, reserved_at,
                   verified_payers, seen_nonces, entries, closed, produced>>

\* The job goes to the producer unless the runner is gone.
Send(r) ==
    /\ at[r] = "send" /\ ~ closed
    /\ payments' = Append(payments, r)
    /\ Goes(r, "accepted")
    /\ UNCHANGED <<scenario, clock, settled, challenge, payer, digest, reserved_at,
                   verified_payers, seen_nonces, entries, closed, produced>>

ShuttingDown(r) == at[r] = "send" /\ closed /\ Reject(r)

\* The client hangs up, and the handler is dropped where it awaits an answer or the lock
\* of the nonces.  A settlement that was asked for may still happen.
Disconnect(r) ==
    /\ at[r] \in {"verify", "settle", "reserve", "permission"}
    /\ Goes(r, "gone")
    /\ \/ UNCHANGED settled
       \/ at[r] = "settle" /\ settled' = settled \cup {Payment(r)}
    /\ UNCHANGED <<scenario, clock, challenge, payer, digest, reserved_at, verified_payers,
                   seen_nonces, entries, channelVars>>

-----------------------------------------------------------------------------
(* The producer, the runner's end, the sweeps and the clock. *)

\* Mutant: the stream is only woken by a second payment.
Yield_late ==
    /\ ~ closed /\ Len(payments) > 1
    /\ produced' = produced \cup {Head(payments)}
    /\ payments' = Tail(payments)
    /\ UNCHANGED <<scenario, clock, settled, requestVars, verified_payers, seen_nonces, entries,
                   closed>>

Yield ==
    /\ ~ closed /\ payments # <<>>
    /\ produced' = produced \cup {Head(payments)}
    /\ payments' = Tail(payments)
    /\ UNCHANGED <<scenario, clock, settled, requestVars, verified_payers, seen_nonces, entries,
                   closed>>

RunnerEnds ==
    /\ ~ closed
    /\ closed' = TRUE
    /\ payments' = <<>>
    /\ UNCHANGED <<scenario, clock, settled, requestVars, verified_payers, seen_nonces, entries,
                   produced>>

gc ==
    LET keep == {d \in DOMAIN entries : ~ entries[d].consumed /\ entries[d].expires > clock}
    IN  /\ keep # DOMAIN entries
        /\ entries' = Without(entries, DOMAIN entries \ keep)
        /\ UNCHANGED <<scenario, clock, settled, requestVars, verified_payers, seen_nonces,
                       channelVars>>

run_payer_cache_gc ==
    LET old == {id \in DOMAIN verified_payers :
                  clock - verified_payers[id].at >= PAYER_CACHE_TTL}
    IN  /\ old # {}
        /\ verified_payers' = Without(verified_payers, old)
        /\ UNCHANGED <<scenario, clock, settled, requestVars, seen_nonces, entries, channelVars>>

Tick ==
    /\ clock < MaxClock
    /\ clock' = clock + 1
    /\ UNCHANGED <<scenario, settled, requestVars, verified_payers, seen_nonces, entries,
                   channelVars>>

\* What a handler does once its client has sent the paid request.
Handle(r) ==
    \/ Verify(r) \/ VerifyFails(r) \/ Settle(r) \/ SettleFails(r) \/ Drain(r)
    \/ CheckPolicy(r) \/ reserve(r) \/ Permitted(r) \/ NotPermitted(r)
    \/ insert_dynamic(r) \/ consume(r) \/ QuoteConflict(r) \/ Send(r) \/ ShuttingDown(r)

Client(r) ==
    \/ IssueChallenge(r) \/ RefuseChallenge(r) \/ Post(r) \/ RefusePayment(r) \/ Disconnect(r)

Next ==
    \/ \E r \in Requests : Client(r) \/ Handle(r)
    \/ Yield \/ RunnerEnds \/ gc \/ run_payer_cache_gc \/ Tick

Spec == Init /\ [][Next]_vars

\* Handlers are tasks of the runtime, and the runner polls its producers.  That the
\* facilitator answers or times out, and that the contract answers isPermittedCaller, for
\* which the code sets no timeout, is assumed.
FairSpec ==
    /\ Spec
    /\ \A r \in Requests : WF_vars(Handle(r))
    /\ WF_vars(Yield)

-----------------------------------------------------------------------------
Accepted == {r \in Requests : at[r] = "accepted"}

(***************************************************************************)
(* Every job stands for a payment of its own: its request's payment is     *)
(* settled, no other accepted request has the same one, however a client's *)
(* retries overlap, and a payment answering a challenge was asked for this *)
(* job.                                                                    *)
(***************************************************************************)
JobsArePaid ==
    /\ \A r \in Accepted :
         /\ Payment(r) \in settled
         /\ Request(r).protocol = "mpp" => challenge[r].job = Route(r)
    /\ \A r, q \in Accepted : Payment(r) = Payment(q) => r = q

ByPayer == {r \in Accepted : Policy(Route(r)) = "payer_is_caller"}

SharesChallenge(q, r) == challenge[q] # None /\ challenge[q] = challenge[r]

(***************************************************************************)
(* Where the payer is the caller, the caller of a job has paid, and paid   *)
(* once per job.  It is the payer of the request's own payment, unless     *)
(* another request answers a challenge of the same job and second: the two *)
(* have the same id and share an entry of the cache, and a request may be  *)
(* given the payer of the other (see CallersAreTheirPayers).               *)
(***************************************************************************)
CallersHavePaid ==
    /\ \A r \in ByPayer :
         /\ payer[r] \in settled
         /\ \/ payer[r] = Payment(r)
            \/ \E q \in Requests : SharesChallenge(q, r) /\ Payment(q) = payer[r]
    /\ \A r, q \in ByPayer : payer[r] = payer[q] => r = q

(***************************************************************************)
(* "Caller is inferred from the settled payment payer" (config.rs:53): the *)
(* caller of a job is the payer of the payment its own request settled.    *)
(* The cache that hands the payer over is "keyed by the challenge id",     *)
(* said to be "unique per challenge issuance" (mpp/state.rs:26-29).        *)
(***************************************************************************)
CallersAreTheirPayers == \A r \in ByPayer : payer[r] = Payment(r)

(***************************************************************************)
(* "the route handler always drains in the same request lifecycle": an     *)
(* entry of the payer cache belongs to a request that is about to take it. *)
(***************************************************************************)
NoPayerLeftBehind ==
    \A id \in DOMAIN verified_payers : \E r \in Requests : at[r] = "drain" /\ challenge[r] = id

Delegated == {r \in Requests : reserved_at[r] # None}

(***************************************************************************)
(* A nonce that was reserved stays taken until the second its signature    *)
(* expires in, whatever other requests reserve and sweep meanwhile.        *)
(***************************************************************************)
NoncesStayTaken ==
    \A r, q \in Delegated :
      (r # q /\ Sig(r).caller = Sig(q).caller /\ Route(r) = Route(q) /\ Sig(r).nonce = Sig(q).nonce)
        => \/ reserved_at[r] >= Sig(q).expiry
           \/ reserved_at[q] >= Sig(r).expiry

(***************************************************************************)
(* A paid request comes to an end, whatever it loses or collides with on   *)
(* its way, and an accepted one becomes a job, unless the runner ends.     *)
(***************************************************************************)
PaidRequestsEnd ==
    \A r \in Requests :
      /\ (at[r] = "verify") ~> (at[r] \in Ends)
      /\ (at[r] = "accepted") ~> (r \in produced \/ closed)
=============================================================================
