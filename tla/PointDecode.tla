---------------------------- MODULE PointDecode -----------------------------
(***************************************************************************)
(* Points as they cross the wire (vendor/Decode.mo and DecodeG2.mo): the   *)
(* canister's decoding of compressed points, and the encoding that         *)
(* arkworks writes.  An encoding is the number that its big-endian bytes   *)
(* make, three flags above one coordinate, or above c1 with c0 below it.   *)
(* The curve is y^2 = x^3 + 4 over a small field, and its twist by 1 + u,  *)
(* u^2 = -1, over the quadratic extension.                                 *)
(***************************************************************************)
EXTENDS Integers

CONSTANTS DecodeField,  \* p, 3 modulo 4
          DataWidth     \* 2^381: what the bytes of a coordinate leave to its data

\* Elements of the extension are pairs <<c0, c1>>.
Fp2 == INSTANCE JacobianCurve
         WITH Fq <- DecodeField, NonResidue <- DecodeField - 1, ScalarBits <- 1

Fp == 0..(DecodeField - 1)
Infinite == <<"inf">>
Point(x, y) == <<"pt", x, y>>

isCanonical(a) == a < DecodeField
sub(a, b) == (a - b) % DecodeField

power(a, e) ==
  LET p[n \in 0..e] == IF n = 0 THEN 1 ELSE (p[n - 1] * a) % DecodeField
  IN p[e]

inv(a) == power(a, DecodeField - 2)
Half(a) == (a * inv(2)) % DecodeField

\* ?Nat is a set of at most one element.
sqrtOpt(a) == {cand \in {power(a, (DecodeField + 1) \div 4)} : (cand * cand) % DecodeField = a}

isLargerRoot(y) == y > (DecodeField - 1) \div 2

g1_rhs(x) == (x * x * x + 4) % DecodeField
g2_rhs(x) == Fp2!Add(Fp2!Mul(Fp2!Sqr(x), x), <<4, 4>>)
-----------------------------------------------------------------------------
\* The complex method: every root is checked by squaring, and the first one
\* found is returned.
checked(a, roots) == {root \in roots : Fp2!Sqr(root) = a}

InBaseField(a) ==
  LET real == {<<s, 0>> : s \in sqrtOpt(a[1])}
  IN checked(a, IF real # {} THEN real ELSE {<<0, t>> : t \in sqrtOpt(sub(0, a[1]))})

\* One of the two halves of the trace has the root's first coordinate squared.
ByNorm(a) ==
  LET from(alpha) ==
        checked(a, {<<x0, (a[2] * inv(2 * x0)) % DecodeField>> : x0 \in sqrtOpt(alpha) \ {0}})
  IN UNION {LET first == from(Half((a[1] + s) % DecodeField))
            IN IF first # {} THEN first ELSE from(Half(sub(a[1], s))) :
              s \in sqrtOpt((a[1] * a[1] + a[2] * a[2]) % DecodeField)}

sqrtFp2Opt(a) == IF a[2] = 0 THEN InBaseField(a) ELSE ByNorm(a)

\* Mutant: the coordinate that is compared first decides alone.
isLargerRootFp2_C1(y) == isLargerRoot(y[2])

isLargerRootFp2(y) == IF y[2] # 0 THEN isLargerRoot(y[2]) ELSE isLargerRoot(y[1])
-----------------------------------------------------------------------------
\* Flags and data of the coordinate that the flags share their byte with.
SplitFlags(top) ==
  LET bits == top \div DataWidth
  IN [compression |-> (bits \div 4) % 2 = 1, infinity |-> (bits \div 2) % 2 = 1,
      sort |-> bits % 2 = 1]

\* {} is a refusal.
decodeG1(n) ==
  LET f == SplitFlags(n)
      x == n % DataWidth
      y(y0) == IF isLargerRoot(y0) = f.sort THEN y0 ELSE sub(0, y0)
  IN IF ~f.compression THEN {}
     ELSE IF f.infinity THEN IF x # 0 \/ f.sort THEN {} ELSE {Infinite}
     ELSE IF ~isCanonical(x) THEN {}
     ELSE {Point(x, y(y0)) : y0 \in sqrtOpt(g1_rhs(x))}

\* The second half of the bytes has no flags in it: it can hold eight times more.
LowWidth == 8 * DataWidth

decodeG2(n) ==
  LET top == n \div LowWidth
      f == SplitFlags(top)
      x == <<n % LowWidth, top % DataWidth>>
      y(y0) == IF isLargerRootFp2(y0) = f.sort THEN y0 ELSE Fp2!Neg(y0)
  IN IF ~f.compression THEN {}
     ELSE IF f.infinity THEN IF x # <<0, 0>> \/ f.sort THEN {} ELSE {Infinite}
     ELSE IF ~isCanonical(x[1]) \/ ~isCanonical(x[2]) THEN {}
     ELSE {Point(x, y(y0)) : y0 \in sqrtFp2Opt(g2_rhs(x))}
-----------------------------------------------------------------------------
\* serialize_compressed: the sort flag is set when y is greater than -y, pairs
\* compared by c1 first.
Greater(y, z) == IF y[2] # z[2] THEN y[2] > z[2] ELSE y[1] > z[1]

encodeG1(p) ==
  IF p = Infinite THEN 6 * DataWidth
  ELSE p[2] + (IF p[3] > sub(0, p[3]) THEN 5 ELSE 4) * DataWidth

encodeG2(p) ==
  IF p = Infinite THEN 6 * DataWidth * LowWidth
  ELSE p[2][1] + (p[2][2] + (IF Greater(p[3], Fp2!Neg(p[3])) THEN 5 ELSE 4) * DataWidth)
                   * LowWidth

G1OnCurve == {Infinite} \cup
  {Point(q[1], q[2]) : q \in {q \in Fp \X Fp : (q[2] * q[2]) % DecodeField = g1_rhs(q[1])}}

G2OnCurve ==
  LET roots == [s \in Fp \X Fp |-> {y \in Fp \X Fp : Fp2!Sqr(y) = s}]
  IN {Infinite} \cup UNION {{Point(x, y) : y \in roots[g2_rhs(x)]} : x \in Fp \X Fp}

\* Every point decodes from what arkworks writes of it, and nothing else is
\* accepted: in particular no second encoding of a point.
decode_exact ==
  /\ \A p \in G1OnCurve : decodeG1(encodeG1(p)) = {p}
  /\ \A p \in G2OnCurve : decodeG2(encodeG2(p)) = {p}
  /\ \A n \in 0..(8 * DataWidth - 1) : \A p \in decodeG1(n) :
       p \in G1OnCurve /\ encodeG1(p) = n
  /\ \A n \in 0..(LowWidth * LowWidth - 1) : \A p \in decodeG2(n) :
       p \in G2OnCurve /\ encodeG2(p) = n
=============================================================================
