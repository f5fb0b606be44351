----------------------------- MODULE MCKeyCache -----------------------------
(* Small instances of KeyCache: a few calls, a short TTL, a rotation to a  *)
(* key that does not parse and one to a key that does.                     *)
EXTENDS KeyCache, TLC

MCGarbage == {1}

MCCallerSymmetry == Permutations(Callers)
=============================================================================
