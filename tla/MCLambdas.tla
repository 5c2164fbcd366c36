------------------------------ MODULE MCLambdas ------------------------------
(* Small instances of Lambdas: a string, an array and an integer.           *)
EXTENDS Lambdas, TLC

CONSTANTS name, bins, count

Types == [n \in Names |-> IF n = name THEN "string" ELSE IF n = bins THEN "array" ELSE "other"]

Alike == Permutations(Functions) \cup Permutations(Envs) \cup Permutations(Words)
=============================================================================
