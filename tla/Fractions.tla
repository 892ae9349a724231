------------------------------ MODULE Fractions ------------------------------
(***************************************************************************)
(* Parameters as exact numbers: a fraction is a pair in lowest terms, so   *)
(* that equal numbers are equal pairs.  The logarithms of PsddParameter,   *)
(* and what they round, are left out.                                      *)
(***************************************************************************)
EXTENDS Naturals

GCD[p \in Nat \X Nat] == IF p[2] = 0 THEN p[1] ELSE GCD[<<p[2], p[1] % p[2]>>]

Lowest(n, d) == LET g == GCD[<<n, d>>] IN <<n \div g, d \div g>>

Fraction == {q \in Nat \X (Nat \ {0}) : GCD[q] = 1}

Zero == <<0, 1>>
One == <<1, 1>>

Plus(p, q) == Lowest(p[1] * q[2] + q[1] * p[2], p[2] * q[2])
Times(p, q) == Lowest(p[1] * q[1], p[2] * q[2])
Over(p, q) == Lowest(p[1] * q[2], p[2] * q[1])

=============================================================================
