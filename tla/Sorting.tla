------------------------------- MODULE Sorting -------------------------------
(***************************************************************************)
(* The list of a set in an order that puts any two of its members apart:   *)
(* what sorted() makes of them, and a query of its sort keys.              *)
(***************************************************************************)
EXTENDS Integers, FiniteSets

\* The members of S, each after those that are before it.
InOrder(S, Before(_, _)) ==
  CHOOSE s \in [1 .. Cardinality(S) -> S] : \A i, j \in DOMAIN s : i < j => Before(s[i], s[j])
=============================================================================
