--------------------------- MODULE JacobianCurve ----------------------------
(***************************************************************************)
(* The curve arithmetic of the Groth16 verifier (vendor/CurveFlat.mo) and  *)
(* of the oracle that checks it (circuit/src/bin/oracle_subgroup_jacobian) *)
(* over a small field.  A point is a Jacobian triple <<X, Y, Z>> for the   *)
(* affine point (X/Z^2, Y/Z^3); Z = 0 is infinity.  Coordinates are pairs  *)
(* c0 + c1 u of the quadratic extension; those of G1 have c1 = 0, and the  *)
(* formulas for G1 and G2 are the same.                                    *)
(***************************************************************************)
EXTENDS Integers

CONSTANTS Fq,            \* the order of the base field
          NonResidue,    \* u * u
          ScalarBits     \* bound on the bits of a scalar

Elements == 0..(Fq - 1)
Fq2 == Elements \X Elements
Zero == <<0, 0>>
One == <<1, 0>>

Add(f, g) == <<(f[1] + g[1]) % Fq, (f[2] + g[2]) % Fq>>
Neg(f) == <<(-f[1]) % Fq, (-f[2]) % Fq>>
Sub(f, g) == Add(f, Neg(g))
Mul(f, g) == <<(f[1] * g[1] + NonResidue * f[2] * g[2]) % Fq,
               (f[1] * g[2] + f[2] * g[1]) % Fq>>
Sqr(f) == Mul(f, f)
Times(k, f) == <<(k * f[1]) % Fq, (k * f[2]) % Fq>>
conj(f) == <<f[1], (-f[2]) % Fq>>
-----------------------------------------------------------------------------
InfPoint == <<One, One, Zero>>

IsInf(p) == p[3] = Zero

DblInto(p) ==
  IF IsInf(p) THEN p
  ELSE IF p[2] = Zero THEN InfPoint
  ELSE LET A == Sqr(p[1])
           B == Sqr(p[2])
           C == Sqr(B)
           D == Times(2, Sub(Sub(Sqr(Add(p[1], B)), A), C))
           E == Times(3, A)
           x3 == Sub(Sqr(E), Times(2, D))
       IN <<x3, Sub(Mul(E, Sub(D, x3)), Times(8, C)), Times(2, Mul(p[2], p[3]))>>

\* The chord through two points with different x, given what AddInto computed.
Chord(p, q, U1, U2, S1, S2) ==
  LET H == Sub(U2, U1)
      I == Sqr(Times(2, H))
      J == Mul(H, I)
      r == Times(2, Sub(S2, S1))
      V == Mul(U1, I)
      x3 == Sub(Sub(Sqr(r), J), Times(2, V))
  IN <<x3, Sub(Mul(r, Sub(V, x3)), Times(2, Mul(S1, J))),
       Mul(Sub(Sub(Sqr(Add(p[3], q[3])), Sqr(p[3])), Sqr(q[3])), H)>>

AddInto(p, q) ==
  IF IsInf(p) THEN q
  ELSE IF IsInf(q) THEN p
  ELSE LET U1 == Mul(p[1], Sqr(q[3]))
           U2 == Mul(q[1], Sqr(p[3]))
           S1 == Mul(Mul(p[2], q[3]), Sqr(q[3]))
           S2 == Mul(Mul(q[2], p[3]), Sqr(p[3]))
       IN IF U1 = U2 THEN IF S1 = S2 THEN DblInto(p) ELSE InfPoint
                     ELSE Chord(p, q, U1, U2, S1, S2)

\* Double-and-add from the least significant bit.
MulInto(p, e) ==
  LET after[n \in 0..ScalarBits] ==
        IF n = 0 THEN [res |-> InfPoint, base |-> p]
        ELSE LET s == after[n - 1]
             IN [res |-> IF (e \div 2^(n - 1)) % 2 = 1 THEN AddInto(s.res, s.base)
                                                       ELSE s.res,
                 base |-> DblInto(s.base)]
  IN after[ScalarBits].res

NegY(p) == <<p[1], Neg(p[2]), p[3]>>

\* Another representation of the same affine point.
rescale(p, lambda) ==
  <<Mul(p[1], Sqr(lambda)), Mul(Mul(p[2], Sqr(lambda)), lambda), Mul(p[3], lambda)>>

eq_jac(p, q) ==
  IF IsInf(p) \/ IsInf(q) THEN IsInf(p) /\ IsInf(q)
  ELSE /\ Mul(p[1], Sqr(q[3])) = Mul(q[1], Sqr(p[3]))
       /\ Mul(Mul(p[2], q[3]), Sqr(q[3])) = Mul(Mul(q[2], p[3]), Sqr(p[3]))
=============================================================================
