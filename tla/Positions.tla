----------------------------- MODULE Positions ------------------------------
(* The positions of a log that satisfy a test, and sums along a sequence,  *)
(* as recursive functions over the natural numbers.                        *)
EXTENDS Naturals, Sequences

\* The members of S in 1..n, in order.
InOrder(S, n) ==
    LET upTo[k \in Nat] ==
          IF k = 0 THEN <<>>
          ELSE IF k \in S THEN Append(upTo[k - 1], k) ELSE upTo[k - 1]
    IN  upTo[n]

\* The elements of a sequence at the positions of S, in order
Chosen(values, S) ==
    LET at == InOrder(S, Len(values)) IN [j \in DOMAIN at |-> values[at[j]]]

\* The sum of a sequence of natural numbers
SumOf(values) ==
    LET upTo[k \in 0..Len(values)] ==
          IF k = 0 THEN 0 ELSE upTo[k - 1] + values[k]
    IN  upTo[Len(values)]
=============================================================================
