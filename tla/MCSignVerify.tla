---------------------------- MODULE MCSignVerify ----------------------------
(***************************************************************************)
(* SignVerify for TLC: three ticks a second, a key whose window begins and *)
(* ends within a second, and clocks that are off by up to the skew.        *)
(***************************************************************************)
EXTENDS SignVerify

CONSTANTS n1, a1

Seconds == {3 * s : s \in 0..10}

MCInputs ==
    [created : Seconds, expires : Seconds, nonce : {n1}, alg : {a1},
     genuine : {TRUE}, covered : {TRUE}, identified : {TRUE}]

MCSigningKey == [notBefore |-> 5, notAfter |-> 17, freshUntil |-> 16, revoked |-> FALSE,
                 algorithm |-> a1]
MCKeys == {MCSigningKey}
MCTimes == 0..60
MCDrifts == {-2, -1, 0, 2}
=============================================================================
