-------------------------------- MODULE Sums --------------------------------
(***************************************************************************)
(* Sums over numbered rows: what SUM(...) computes in the SQL of the        *)
(* repository.  A recursive function, so that proofs can reason about it    *)
(* for any number of rows.                                                  *)
(***************************************************************************)
EXTENDS Integers

\* f[1] + ... + f[n]
SumTo(f, n) ==
    LET upTo[i \in 0..n] == IF i = 0 THEN 0 ELSE upTo[i-1] + f[i]
    IN upTo[n]
=============================================================================
