------------------------------- MODULE Totals -------------------------------
(***************************************************************************)
(* SELECT coalesce(sum(f), 0) over a set of rows.  The sum is written      *)
(* without recursion, as the number of unit coins in the piles of the      *)
(* rows, so that its laws follow from those of finite sets.                *)
(***************************************************************************)
EXTENDS Integers, FiniteSets

Pile(f, k) == {k} \X (1..f[k])

Piles(f, S) == UNION {Pile(f, k) : k \in S}

Total(f, S) == Cardinality(Piles(f, S))
=============================================================================
