------------------------- MODULE MCUpgradePipeline -------------------------
(* A service of each of two blueprints; version v1 has an attestation, v2 has none. *)
EXTENDS UpgradePipeline, TLC

CONSTANTS s1, s2, b1, b2, v1, v2

MC_BlueprintOf == s1 :> b1 @@ s2 :> b2
MC_Sha == [v \in Versions |-> v]

Versions12 == {<<"version", b, v>> : b \in {b1, b2}, v \in {v1, v2}}

\* Blocks come faster than the watcher reconciles.
Crowded ==
    [policy |-> s1 :> "Auto" @@ s2 :> "Auto", active |-> {s1, s2},
     changes |-> {<<"version", b1, v2>>, <<"version", b2, v2>>, <<"policy", s1, "Auto">>},
     max_blocks |-> 4, max_acts |-> 0, max_faults |-> 0]

\* Consent is given, by acknowledgement and by hand, and taken back.
Consents ==
    [policy |-> s1 :> "Manual" @@ s2 :> "Approve", active |-> {s1, s2},
     changes |-> Versions12 \cup
                 {<<"policy", s1, "Auto">>, <<"policy", s1, "Manual">>, <<"ack", s2, v2>>,
                  <<"pin", s1, v2>>, <<"pin", s1, None>>, <<"whitelist", s1, {v1, v2}>>,
                  <<"skip", s1, v2>>, <<"unskip", s1, v2>>},
     max_blocks |-> 2, max_acts |-> 2, max_faults |-> 0]

\* Services come and go, and calls fail.
Failing ==
    [policy |-> s1 :> "Auto" @@ s2 :> "Approve", active |-> {s1},
     changes |-> {<<"version", b1, v2>>, <<"version", b2, v2>>,
                  <<"start", s2>>, <<"stop", s1>>, <<"ack", s2, v2>>},
     max_blocks |-> 3, max_acts |-> 0, max_faults |-> 1]

\* One new version, and nothing goes wrong.
OneVersion ==
    [policy |-> s1 :> "Auto" @@ s2 :> "Auto", active |-> {s1, s2},
     changes |-> {<<"version", b1, v2>>}, max_blocks |-> 1, max_acts |-> 0, max_faults |-> 0]

\* One new version with an attestation, and its acknowledgement.
Acknowledged ==
    [policy |-> s1 :> "Approve" @@ s2 :> "Auto", active |-> {s1},
     changes |-> {<<"version", b1, v1>>, <<"ack", s1, v1>>},
     max_blocks |-> 2, max_acts |-> 0, max_faults |-> 0]

MC_Acknowledged == {Acknowledged}
MC_OneVersion == {OneVersion}
MC_Scenarios == {Crowded, Consents, Failing}
=============================================================================
