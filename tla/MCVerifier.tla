----------------------------- MODULE MCVerifier -----------------------------
(***************************************************************************)
(* Verifier for TLC: a second has one tick, inputs differ in their         *)
(* creation, expiration, nonce and in whether they verify; one input fails *)
(* coverage, one lacks a lifetime.  The resolver may return a good key, a  *)
(* revoked one, one that goes stale, one of another algorithm and one not  *)
(* yet valid.                                                              *)
(***************************************************************************)
EXTENDS Verifier, TLC

CONSTANTS n1, a1, a2

Good == [created |-> 2, expires |-> 0, nonce |-> n1, alg |-> NoAlg, genuine |-> TRUE,
         covered |-> TRUE, identified |-> TRUE]

MCInputs ==
    {Good,
     [Good EXCEPT !.created = 3, !.expires = 6],
     [Good EXCEPT !.genuine = FALSE],
     [Good EXCEPT !.nonce = NoNonce, !.alg = a1],
     [Good EXCEPT !.covered = FALSE], [Good EXCEPT !.identified = FALSE],
     [Good EXCEPT !.created = 0], [Good EXCEPT !.created = 0, !.expires = 3],
     [Good EXCEPT !.expires = 2], [Good EXCEPT !.alg = a2]}

Key == [notBefore |-> 1, notAfter |-> 9, freshUntil |-> 9, revoked |-> FALSE, algorithm |-> a1]

MCKeys ==
    {Key, [Key EXCEPT !.freshUntil = 4], [Key EXCEPT !.revoked = TRUE], [Key EXCEPT !.algorithm = a2],
     [Key EXCEPT !.notBefore = 9]}

MCTimes == 0..7

CallSymmetry == Permutations(Calls)
=============================================================================
