-------------------------------- MODULE Sums --------------------------------
(* The sum of the values of a function over its finite domain. *)
EXTENDS Integers

SumOf(f) ==
    LET Part[S \in SUBSET DOMAIN f] ==
          IF S = {} THEN 0
          ELSE LET x == CHOOSE y \in S : TRUE IN f[x] + Part[S \ {x}]
    IN Part[DOMAIN f]
=============================================================================
