---------------------- MODULE MCAggregatingOperators ------------------------
(* Instances of AggregatingOperators for TLC. *)
EXTENDS AggregatingOperators, TLC

CONSTANTS a, b          \* outputs

Two == {0, 1}
Unit == [o \in Operators |-> 1]

CountTwo == Count(2)

AllFaults == {"request", "reply", "timeout", "transport", "crash", "amnesia"}
=============================================================================
