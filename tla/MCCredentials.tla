---------------------------- MODULE MCCredentials ----------------------------
(* An instance of Credentials for model checking: two services whose policies *)
(* give permits different lifetimes.                                          *)
EXTENDS Credentials, TLC

CONSTANTS s1, s2

Lifetimes == s1 :> 1 @@ s2 :> 2

KeySymmetry == Permutations(Keys)
=============================================================================
