---------------------------------- MODULE Sums ----------------------------------
(* Sums of natural numbers, by counting units: a function that gives each    *)
(* holder an amount is the set of its units <<holder, i>>, and its sum is how *)
(* many there are.                                                           *)
EXTENDS Naturals, FiniteSets

Units(f) == UNION {{x} \X (1..f[x]) : x \in DOMAIN f}

SumOf(f) == Cardinality(Units(f))
=============================================================================
