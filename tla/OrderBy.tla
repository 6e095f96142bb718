------------------------------ MODULE OrderBy -------------------------------
(***************************************************************************)
(* ORDER BY: the rows of a set as the database returns them, by a column   *)
(* whose values are numbers, all different.                                *)
(***************************************************************************)
EXTENDS Naturals, FiniteSets

Ascending(S) == CHOOSE s \in [1 .. Cardinality(S) -> S] :
                    \A i, j \in 1 .. Cardinality(S) : i < j => s[i] < s[j]

Descending(S) == CHOOSE s \in [1 .. Cardinality(S) -> S] :
                    \A i, j \in 1 .. Cardinality(S) : i < j => s[i] > s[j]

=============================================================================
