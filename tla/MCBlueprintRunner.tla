------------------------ MODULE MCBlueprintRunner ---------------------------
(* Instances of BlueprintRunner for TLC. *)
EXTENDS BlueprintRunner, TLC

CONSTANTS c1, c2, s1

\* Nothing, or a log that is no job call followed by one.
Contents == {<<>>, <<FALSE, TRUE>>}

AllFailures == {"setup", "producer", "job", "panic", "submission", "sender dropped"}
=============================================================================
