--------------------------------- MODULE Sums ---------------------------------
(***************************************************************************)
(* The sum of numbers in a row, as SUM and AVG of a query compute it.      *)
(***************************************************************************)
EXTENDS Integers

(* f[1] + ... + f[n] *)
Total(f, n) ==
  LET sum[i \in Nat] == IF i = 0 THEN 0 ELSE sum[i - 1] + f[i] IN sum[n]
=============================================================================
