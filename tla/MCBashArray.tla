----------------------------- MODULE MCBashArray -----------------------------
(* Small instances of BashArray: two arrays and memory for a few elements.  *)
EXTENDS BashArray, TLC

CONSTANTS x, y

Listings == {<<x, y>>, <<x, Comment, y>>}

\* Nothing tells two arrays apart.
AnyArray == Permutations(Arrays)
=============================================================================
