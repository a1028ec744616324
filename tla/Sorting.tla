------------------------------ MODULE Sorting ------------------------------
(***************************************************************************)
(* A set as a list in the order of its elements' numbers (sort_by of       *)
(* service.rs, ORDER BY of the database); elements with the same number    *)
(* come in any order.                                                      *)
(***************************************************************************)
EXTENDS FiniteSets, Integers

SortedBy(S, number) ==
    CHOOSE list \in [1..Cardinality(S) -> S] :
        \A i, j \in DOMAIN list : i < j => list[i] # list[j] /\ number[list[i]] <= number[list[j]]

\* A set of numbers in their order.
Ascending(S) == SortedBy(S, [n \in S |-> n])
=============================================================================
