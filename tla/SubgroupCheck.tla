--------------------------- MODULE SubgroupCheck ----------------------------
(***************************************************************************)
(* The fast subgroup checks by endomorphism, and the oracle program that   *)
(* compares them with the definition [r]P = O.  The curve is the BLS12     *)
(* curve of the parameter -2: base field 37, r = 13, 39 points in G1's     *)
(* group and 1417 in G2's, so that what the oracle samples of BLS12-381    *)
(* can be gone through completely.                                         *)
(***************************************************************************)
EXTENDS JacobianCurve

CONSTANTS X_ABS,                     \* the curve parameter is -X_ABS
          GroupOrder,                \* r
          CurveB, TwistB,            \* y^2 = x^3 + b on the curve, on its twist
          beta, psi_x_coeff, psi_y_coeff,
          Rescalings                 \* the lambdas tried on every point

\* The square roots first: one pass over the field instead of its square.
PointsOn(coordinates, b) ==
  LET roots == [s \in Fq2 |-> {y \in coordinates : Sqr(y) = s}]
  IN {InfPoint} \cup
     UNION {{<<x, y, One>> : y \in roots[Add(Mul(x, Sqr(x)), b)]} : x \in coordinates}

G1Points == PointsOn(Elements \X {0}, CurveB)
G2Points == PointsOn(Fq2, TwistB)

\* The definition: [r]P = O.
InSubgroup(p) == IsInf(MulInto(p, GroupOrder))

g1_endo_jac(p) == <<Mul(beta, p[1]), p[2], p[3]>>

g1_fast_check(p) ==
  \/ IsInf(p)
  \/ LET x_p == MulInto(p, X_ABS)
     IN /\ ~eq_jac(x_p, p)
        /\ eq_jac(NegY(MulInto(x_p, X_ABS)), g1_endo_jac(p))

\* Mutant: Z is left as it is, which goes unnoticed while Z = 1.
psi_jac_KeepsZ(p) ==
  <<Mul(psi_x_coeff, conj(p[1])), Mul(psi_y_coeff, conj(p[2])), p[3]>>

psi_jac(p) ==
  <<Mul(psi_x_coeff, conj(p[1])), Mul(psi_y_coeff, conj(p[2])), conj(p[3])>>

g2_fast_check(p) == IsInf(p) \/ eq_jac(NegY(MulInto(p, X_ABS)), psi_jac(p))

Rescaled(p, lambda) == IF IsInf(p) THEN p ELSE rescale(p, lambda)

\* The oracle's three verdicts on a point: of the definition, of the fast check,
\* and of the fast check on another representation.
all_pass ==
  /\ \A p \in G1Points, lambda \in {l \in Rescalings : l[2] = 0} :
       {g1_fast_check(p), g1_fast_check(Rescaled(p, lambda))} = {InSubgroup(p)}
  /\ \A p \in G2Points, lambda \in Rescalings :
       {g2_fast_check(p), g2_fast_check(Rescaled(p, lambda))} = {InSubgroup(p)}
-----------------------------------------------------------------------------
\* The group law by the textbook: slopes, with a true division.
Reciprocal(f) == CHOOSE g \in Fq2 : Mul(f, g) = One

AffineSum(p, q) ==
  IF IsInf(p) THEN q
  ELSE IF IsInf(q) THEN p
  ELSE IF p[1] = q[1] /\ p[2] = Neg(q[2]) THEN InfPoint
  ELSE LET slope == IF p = q THEN Mul(Times(3, Sqr(p[1])), Reciprocal(Times(2, p[2])))
                             ELSE Mul(Sub(q[2], p[2]), Reciprocal(Sub(q[1], p[1])))
           x3 == Sub(Sub(Sqr(slope), p[1]), q[1])
       IN <<x3, Sub(Mul(slope, Sub(p[1], x3)), p[2]), One>>

group_law_exact ==
  \A p, q \in G1Points, lambda \in {l \in Rescalings : l[2] = 0} :
    eq_jac(AddInto(rescale(p, lambda), q), AffineSum(p, q))
=============================================================================
