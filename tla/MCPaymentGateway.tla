-------------------------- MODULE MCPaymentGateway --------------------------
(* Three requests, two jobs. *)
EXTENDS PaymentGateway, TLC

CONSTANTS r1, r2, r3, j1, j2, p1, p2, p3, c1, n1

Mpp(asks, route, payment) ==
    [protocol |-> "mpp", asks |-> asks, route |-> route, payment |-> payment,
     signature |-> None]

X402(route, payment) ==
    [protocol |-> "x402", asks |-> route, route |-> route, payment |-> payment,
     signature |-> None]

Signed(request, expiry) ==
    [request EXCEPT !.signature = [caller |-> c1, nonce |-> n1, expiry |-> expiry]]

\* Two clients ask for the same job, whose caller is its payer; one job has no price.
SameJob ==
    [policy |-> j1 :> "payer_is_caller" @@ j2 :> "unpriced",
     request |-> r1 :> Mpp(j1, j1, p1) @@ r2 :> Mpp(j1, j1, p2) @@ r3 :> Mpp(j2, j2, p3)]

\* A payment is tried three times.
Retries ==
    [policy |-> j1 :> "public_paid" @@ j2 :> "disabled",
     request |-> r1 :> Mpp(j1, j1, p1) @@ r2 :> Mpp(j1, j1, p1) @@ r3 :> X402(j1, p1)]

\* A nonce is used with two signatures, which expire at different times.
SameNonce ==
    [policy |-> j1 :> "delegated" @@ j2 :> "unpriced",
     request |-> r1 :> Signed(X402(j1, p1), 1) @@ r2 :> Signed(X402(j1, p2), 2)
                 @@ r3 :> X402(j2, p3)]

\* A job is disabled, and a credential is posted to another job than it is for.
Elsewhere ==
    [policy |-> j1 :> "disabled" @@ j2 :> "payer_is_caller",
     request |-> r1 :> Mpp(j2, j1, p1) @@ r2 :> X402(j1, p2) @@ r3 :> X402(j2, p3)]

\* The same, where the other job is served.
WrongRoute ==
    [policy |-> j1 :> "public_paid" @@ j2 :> "public_paid",
     request |-> r1 :> Mpp(j2, j1, p1) @@ r2 :> Mpp(j1, j1, p1) @@ r3 :> Mpp(j2, j2, p1)]

MC_SameJob == {SameJob}
MC_Scenarios == {SameJob, Retries, SameNonce, Elsewhere, WrongRoute}
=============================================================================
