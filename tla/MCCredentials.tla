---------------------------- MODULE MCCredentials ----------------------------
(* Small instances of Credentials: three coroutines share one object. *)
EXTENDS Credentials, TLC

CallerSymmetry == Permutations(Callers)
=============================================================================
